---- MODULE Spec2Model ----
(***************************************************************************)
(* Model of mmedit/datasets/pipelines/sr_resize.py: the pipeline           *)
(* transforms SRResize and RandomDownSampling and the helper resize_fn.    *)
(*                                                                         *)
(* Numbers.  A scale is the rational  n / ScaleDen ; the model carries the *)
(* numerator n.  Every floor and round of the source is computed exactly   *)
(* on those rationals, the 1e-9 of the source included (EpsDen).           *)
(* An image is its container kind and its two spatial dimensions; `by'     *)
(* records which statement produced the buffer.  The interpolation and     *)
(* backend arguments are handed to mmcv unchanged and decide no dimension, *)
(* so they are left out.  Asserts are enabled (no python -O).  Scales are   *)
(* positive.  The state machine follows one sample through the pipeline    *)
(* [RandomDownSampling] -> [SRResize], either stage optional.              *)
(***************************************************************************)
EXTENDS Integers, Sequences, FiniteSets, TLC

\* ---------------------------------------------------------------- bounds
MaxDim == 4
MaxScaleNum == 4
MaxPatch == 2
ScaleDen == 2

\* ------------------------------------------------------ program constants
\* 1e-9, the epsilon added before math.floor
EpsDen == 1000000000
\* patch_size=None
NONE == 0

Keys == {"gt", "lq", "scale", "aux"}
InputKeys == {"gt", "lq"}
OutputKeys == {"gt", "lq", "aux"}
Dims == 1..MaxDim
ScaleNums == 1..MaxScaleNum
PatchSizes == {NONE} \cup (1..MaxPatch)

\* ------------------------------------------------------------------ values
Absent == [kind |-> "absent", h |-> 0, w |-> 0, v |-> 0, by |-> "none"]
Img(kind, h, w, by) == [kind |-> kind, h |-> h, w |-> w, v |-> 0, by |-> by]
Float(n) == [kind |-> "float", h |-> 0, w |-> 0, v |-> n, by |-> "none"]
IsImage(x) == x.kind \in {"ndarray", "tensor"}
Shape(x) == <<x.h, x.w>>

\* ------------------------------------------------------------- arithmetic
\* math.floor(a/b + 1e-9) for integers a >= 0, b > 0.  With r = a % b the
\* fraction r/b plus 1/EpsDen reaches 1 exactly when b >= EpsDen * (b - r).
FloorEps(a, b) ==
    LET q == a \div b
        r == a % b
    IN  IF (b \div (b - r)) >= EpsDen THEN q + 1 ELSE q

\* faulty variant: int(a/b): truncation instead of rounding
PyTrunc(a, b) == a \div b

\* Python 3 round(a/b) for a >= 0, b > 0: to nearest, ties to the even integer.
PyRound(a, b) ==
    LET q == a \div b
        r == a % b
    IN  IF 2 * r < b THEN q
        ELSE IF 2 * r > b THEN q + 1
        ELSE IF q % 2 = 0 THEN q ELSE q + 1

\* One bound of a Python slice over an axis of length n.
SliceIndex(i, n) == IF i < 0 THEN (IF i + n < 0 THEN 0 ELSE i + n)
                    ELSE (IF i > n THEN n ELSE i)

\* Length of x[a:b] over an axis of length n.
SliceLen(a, b, n) ==
    LET lo == SliceIndex(a, n)
        hi == SliceIndex(b, n)
    IN  IF hi > lo THEN hi - lo ELSE 0

\* np.random.uniform(low, high) on the scale grid: low + (high-low)*u, u in [0,1).
Uniform(low, high) == IF high = low THEN {low} ELSE low..(high - 1)

\* faulty variant: an empty range is clamped to the origin instead of raising
RandIntClamped(high) == IF high <= 0 THEN {0} ELSE 0..(high - 1)

\* faulty variant: the upper end is included
RandIntInclusive(high) == 0..high

\* np.random.randint(0, high): the values it can return; empty when it raises
\* ValueError (high <= 0).
RandInt(high) == 0..(high - 1)

\* ----------------------------------------------------------------- resize_fn
\* A size is <<n>> (a single int) or <<w, h>>.
NormalizeSize(size) == IF Len(size) = 1 THEN <<size[1], size[1]>> ELSE size

\* mmcv.imresize(img, (w, h)): an ndarray of h rows and w columns.
imresize(img, size) == Img("ndarray", size[2], size[1], "resize")

\* An image without pixels, or a target size of zero: mmcv hands both to
\* cv2 / pillow, which may reject them.  The source does not decide the
\* outcome, so both (an array of the requested size, an error raised inside
\* imresize) are kept.
Degenerate(img, size) == img.h = 0 \/ img.w = 0 \/ size[1] = 0 \/ size[2] = 0

numpy(img) == [img EXCEPT !.kind = "ndarray"]
from_numpy(img) == [img EXCEPT !.kind = "tensor"]

\* what the call of imresize inside resize_fn can do: return, or raise
ImresizeCall(img, sz, wrap) ==
    { [err |-> "none", passed |-> sz,
       out |-> IF wrap THEN from_numpy(imresize(img, sz)) ELSE imresize(img, sz)] }
    \cup (IF Degenerate(img, sz)
          THEN { [err |-> "ResizeError", passed |-> sz, out |-> Absent] }
          ELSE {})

\* faulty variant: the tensor branch forgets torch.from_numpy
resize_fn_no_wrap(img, size) ==
    LET sz == NormalizeSize(size)
    IN  IF img.kind \in {"ndarray", "tensor"}
        THEN ImresizeCall(numpy(img), sz, FALSE)
        ELSE { [err |-> "TypeError", passed |-> <<>>, out |-> Absent] }

\* The outcomes of resize_fn(img, size): one, unless imresize may reject.
resize_fn(img, size) ==
    LET sz == NormalizeSize(size)
    IN  IF img.kind = "ndarray"
        THEN ImresizeCall(img, sz, FALSE)
        ELSE IF img.kind = "tensor"
        THEN ImresizeCall(numpy(img), sz, TRUE)
        ELSE { [err |-> "TypeError", passed |-> <<>>, out |-> Absent] }

\* -------------------------------------------------------------------- state
VARIABLES
    sr,        \* the SRResize object: cls, scale, input_key, output_key
    rds,       \* the RandomDownSampling object: cls, scale_min, scale_max, patch_size
    results,   \* the sample mapping (dict) flowing through the pipeline
    before,    \* the mapping as it was when the last call was entered
    stage,     \* where the sample is in the pipeline
    last       \* the last operation: its locals, its error, what it returned

vars == <<sr, rds, results, before, stage, last>>

NoSR == [cls |-> "none", scale |-> 0, input_key |-> "gt", output_key |-> "gt"]
NoRDS == [cls |-> "none", scale_min |-> 0, scale_max |-> 0, patch_size |-> NONE]
EmptyDict == [k \in Keys |-> Absent]

NoOp == [op |-> "none", err |-> "none", ret |-> "none",
         scale |-> 0, h_lr |-> 0, w_lr |-> 0, w_hr |-> 0, x0 |-> 0, y0 |-> 0,
         arg1 |-> 0, arg2 |-> 0,
         img |-> Absent, size |-> <<>>, passed |-> <<>>, out |-> Absent]

\* faulty variant: no membership test
HasKeyUnchecked(res, k) == TRUE

\* key in results
HasKey(res, k) == res[k].kind # "absent"

\* The samples a loader hands to the pipeline: 'gt' present or not, a stale
\* 'scale' present or not, an unrelated key 'aux', never an 'lq'.
Samples ==
    { [k \in Keys |->
          CASE k = "gt" -> g
            [] k = "lq" -> Absent
            [] k = "scale" -> s
            [] OTHER -> Img("ndarray", 1, 1, "load")] :
      g \in {Absent} \cup
            { Img(kind, h, w, "load") : kind \in {"ndarray", "tensor"}, h \in Dims, w \in Dims },
      s \in {Absent, Float(0)} }

TypeOK ==
    /\ sr.cls \in {"none", "SRResize"}
    /\ rds.cls \in {"none", "RandomDownSampling"}
    /\ DOMAIN results = Keys
    /\ DOMAIN before = Keys
    /\ stage \in {"build", "loaded", "downsampled", "resized", "failed"}
    /\ last.err \in {"none", "AssertionError", "KeyError", "ValueError", "TypeError",
                     "ResizeError"}

Init ==
    /\ sr = NoSR
    /\ rds = NoRDS
    /\ results = EmptyDict
    /\ before = EmptyDict
    /\ stage = "build"
    /\ last = NoOp

\* ------------------------------------------------------------- constructors
SRResizeInit(scale, input_key, output_key) ==
    /\ stage = "build"
    /\ sr' = [cls |-> "SRResize", scale |-> scale,
              input_key |-> input_key, output_key |-> output_key]
    /\ last' = [NoOp EXCEPT !.op = "SRResize.__init__", !.arg1 = scale]
    /\ UNCHANGED <<rds, results, before, stage>>

\* assert scale_max >= scale_min
ScaleBoundsOK(scale_min, scale_max) == scale_max >= scale_min

RandomDownSamplingInit(scale_min, scale_max, patch_size) ==
    /\ stage = "build"
    /\ IF ScaleBoundsOK(scale_min, scale_max)
       THEN /\ rds' = [cls |-> "RandomDownSampling", scale_min |-> scale_min,
                       scale_max |-> scale_max, patch_size |-> patch_size]
            /\ last' = [NoOp EXCEPT !.op = "RandomDownSampling.__init__",
                                    !.arg1 = scale_min, !.arg2 = scale_max]
       ELSE /\ rds' = rds
            /\ last' = [NoOp EXCEPT !.op = "RandomDownSampling.__init__",
                                    !.err = "AssertionError",
                                    !.arg1 = scale_min, !.arg2 = scale_max]
    /\ UNCHANGED <<sr, results, before, stage>>

\* The enclosing pipeline hands a sample to the transforms it has built.  A
\* behaviour follows one sample: no __call__ assigns to self, so a later sample
\* meets the same objects as the first.
LoadSample ==
    /\ stage = "build"
    /\ \E s \in Samples :
          /\ results' = s
          /\ before' = s
    /\ stage' = "loaded"
    /\ last' = [NoOp EXCEPT !.op = "load"]
    /\ UNCHANGED <<sr, rds>>

\* ------------------------------------------------------- SRResize.__call__
\* faulty variant: (h_out, w_out): the two axes exchanged
SRResizeSizeSwapped(image_in, scale) ==
    <<FloorEps(image_in.h * scale, ScaleDen), FloorEps(image_in.w * scale, ScaleDen)>>

\* (w_out, h_out), the size handed to resize_fn
SRResizeSize(image_in, scale) ==
    <<FloorEps(image_in.w * scale, ScaleDen), FloorEps(image_in.h * scale, ScaleDen)>>

SRResizeCall ==
    /\ stage \in {"loaded", "downsampled"}
    /\ sr.cls = "SRResize"
    /\ before' = results
    /\ IF ~HasKey(results, sr.input_key)
       THEN /\ last' = [NoOp EXCEPT !.op = "SRResize.__call__",
                                    !.err = "AssertionError"]
            /\ results' = results
            /\ stage' = "failed"
       ELSE LET image_in == results[sr.input_key]
                size == SRResizeSize(image_in, sr.scale)
            IN  \E r \in resize_fn(image_in, size) :
                IF r.err # "none"
                THEN /\ last' = [NoOp EXCEPT !.op = "SRResize.__call__",
                                             !.err = r.err,
                                             !.img = image_in, !.size = size]
                     /\ results' = results
                     /\ stage' = "failed"
                ELSE /\ results' = [results EXCEPT ![sr.output_key] = r.out]
                     /\ last' = [NoOp EXCEPT !.op = "SRResize.__call__",
                                             !.ret = "results",
                                             !.img = image_in, !.size = size,
                                             !.passed = r.passed, !.out = r.out]
                     /\ stage' = "resized"
    /\ UNCHANGED <<sr, rds>>

\* ----------------------------------------------- RandomDownSampling.__call__
\* img[a0:a1, b0:b1, :]
Crop(img, a0, a1, b0, b1, by) ==
    Img(img.kind, SliceLen(a0, a1, img.h), SliceLen(b0, b1, img.w), by)

\* faulty variant: a fresh dict holding only the three outputs
StoreRDSFresh(res, crop_hr, crop_lr, scale) ==
    [k \in Keys |-> CASE k = "gt" -> crop_hr
                      [] k = "lq" -> crop_lr
                      [] k = "scale" -> Float(scale)
                      [] OTHER -> Absent]

\* results['gt'] = crop_hr; results['lq'] = crop_lr; results['scale'] = scale
StoreRDS(res, crop_hr, crop_lr, scale) ==
    [res EXCEPT !["gt"] = crop_hr, !["lq"] = crop_lr, !["scale"] = Float(scale)]

RDSFail(err, scale, w_lr, w_hr) ==
    /\ last' = [NoOp EXCEPT !.op = "RandomDownSampling.__call__", !.err = err,
                            !.scale = scale, !.w_lr = w_lr, !.w_hr = w_hr]
    /\ results' = results
    /\ stage' = "failed"

\* faulty variant: (h_lr, w_lr): the two axes exchanged
WholeSizeSwapped(h_lr, w_lr) == <<h_lr, w_lr>>

\* (w_lr, h_lr), the size handed to resize_fn when patch_size is None
WholeSize(h_lr, w_lr) == <<w_lr, h_lr>>

\* patch_size is None: trim from the origin, downsample the whole image
RDSWhole(img, scale) ==
    LET h_lr == FloorEps(img.h * ScaleDen, scale)
        w_lr == FloorEps(img.w * ScaleDen, scale)
        crop_hr == Crop(img, 0, PyRound(h_lr * scale, ScaleDen),
                             0, PyRound(w_lr * scale, ScaleDen), "trim")
    IN  \E r \in resize_fn(crop_hr, WholeSize(h_lr, w_lr)) :
        IF r.err # "none"
        THEN RDSFail(r.err, scale, w_lr, 0)
        ELSE /\ results' = StoreRDS(results, crop_hr, r.out, scale)
             /\ last' = [NoOp EXCEPT !.op = "RandomDownSampling.__call__",
                                     !.ret = "results", !.scale = scale,
                                     !.h_lr = h_lr, !.w_lr = w_lr,
                                     !.img = crop_hr, !.size = WholeSize(h_lr, w_lr),
                                     !.passed = r.passed, !.out = r.out]
             /\ stage' = "downsampled"

\* faulty variant: w_hr = int(w_lr * scale)
PatchExtentTrunc(w_lr, scale) == (w_lr * scale) \div ScaleDen

\* w_hr = round(w_lr * scale)
PatchExtent(w_lr, scale) == PyRound(w_lr * scale, ScaleDen)

\* patch_size given: a random square crop, downsampled to patch_size
RDSPatch(img, scale) ==
    LET w_lr == rds.patch_size
        w_hr == PatchExtent(w_lr, scale)
    IN  IF RandInt(img.h - w_hr) = {} \/ RandInt(img.w - w_hr) = {}
        THEN RDSFail("ValueError", scale, w_lr, w_hr)
        ELSE \E x0 \in RandInt(img.h - w_hr), y0 \in RandInt(img.w - w_hr) :
               LET crop_hr == Crop(img, x0, x0 + w_hr, y0, y0 + w_hr, "crop")
               IN  \E r \in resize_fn(crop_hr, <<w_lr>>) :
                   IF r.err # "none"
                   THEN RDSFail(r.err, scale, w_lr, w_hr)
                   ELSE /\ results' = StoreRDS(results, crop_hr, r.out, scale)
                        /\ last' = [NoOp EXCEPT !.op = "RandomDownSampling.__call__",
                                                !.ret = "results", !.scale = scale,
                                                !.w_lr = w_lr, !.w_hr = w_hr,
                                                !.x0 = x0, !.y0 = y0,
                                                !.img = crop_hr, !.size = <<w_lr>>,
                                                !.passed = r.passed, !.out = r.out]
                        /\ stage' = "downsampled"

RandomDownSamplingCall ==
    /\ stage = "loaded"
    /\ rds.cls = "RandomDownSampling"
    /\ before' = results
    /\ IF ~HasKey(results, "gt")
       THEN RDSFail("KeyError", 0, 0, 0)
       ELSE \E scale \in Uniform(rds.scale_min, rds.scale_max) :
               IF rds.patch_size = NONE
               THEN RDSWhole(results["gt"], scale)
               ELSE RDSPatch(results["gt"], scale)
    /\ UNCHANGED <<sr, rds>>

\* ------------------------------------------------------------ resize_fn call
FnImages ==
    { Img(kind, h, w, "load") : kind \in {"ndarray", "tensor", "other"},
                                h \in Dims, w \in Dims }
FnSizes == { <<n>> : n \in Dims } \cup { <<w, h>> : w \in Dims, h \in Dims }

ResizeFnCall ==
    /\ \E img \in FnImages, size \in FnSizes :
          \E r \in resize_fn(img, size) :
              last' = [NoOp EXCEPT !.op = "resize_fn", !.err = r.err,
                                   !.img = img, !.size = size,
                                   !.passed = r.passed, !.out = r.out]
    /\ UNCHANGED <<sr, rds, results, before, stage>>

\* ------------------------------------------------------------ specifications
Next ==
    \/ \E scale \in ScaleNums, ik \in InputKeys, ok \in OutputKeys :
          SRResizeInit(scale, ik, ok)
    \/ \E lo \in ScaleNums, hi \in ScaleNums, p \in PatchSizes :
          RandomDownSamplingInit(lo, hi, p)
    \/ LoadSample
    \/ SRResizeCall
    \/ RandomDownSamplingCall

Spec == Init /\ [][Next]_vars

\* resize_fn alone, on every image and size of the bounds
NextFn == ResizeFnCall

SpecFn == Init /\ [][NextFn]_vars

\* ------------------------------------------------------------------ claims
RDSReturned == last.op = "RandomDownSampling.__call__" /\ last.ret = "results"
SRReturned == last.op = "SRResize.__call__" /\ last.ret = "results"

\* C1: RandomDownSampling with a patch size p, whenever the call returns:
\* 'lq' is p x p, 'gt' is w_hr x w_hr with w_hr = round(p * scale), and the
\* crop box is inside the source, x0 in [0, H - w_hr) and y0 in [0, W - w_hr).
\* The source 64x64 with scale 2.0 and p = 16 has w_hr = 32 and origins 0..31.
C1_PatchCropInside ==
    /\ (RDSReturned /\ rds.patch_size # NONE) =>
          LET H == before["gt"].h
              W == before["gt"].w
              p == rds.patch_size
              w_hr == PyRound(p * results["scale"].v, ScaleDen)
          IN  /\ Shape(results["lq"]) = <<p, p>>
              /\ Shape(results["gt"]) = <<w_hr, w_hr>>
              /\ last.w_hr = w_hr
              /\ 0 <= last.x0 /\ last.x0 + w_hr <= H /\ last.x0 < H - w_hr
              /\ 0 <= last.y0 /\ last.y0 + w_hr <= W /\ last.y0 < W - w_hr
    /\ PyRound(16 * (2 * ScaleDen), ScaleDen) = 32
    /\ RandInt(64 - PyRound(16 * (2 * ScaleDen), ScaleDen)) = 0..31

\* a returned patch call whose crop sits at the last admissible origin on both
\* axes, away from the source's origin
C1_Witness ==
    /\ RDSReturned /\ rds.patch_size # NONE
    /\ last.w_hr >= 1
    /\ last.x0 >= 1 /\ last.x0 = before["gt"].h - last.w_hr - 1
    /\ last.y0 >= 1 /\ last.y0 = before["gt"].w - last.w_hr - 1

\* C2: RandomDownSampling without a patch size, whenever the call returns:
\* 'lq' is floor(H/scale + 1e-9) x floor(W/scale + 1e-9), 'gt' is
\* round(h_lr*scale) x round(w_lr*scale), cut from the origin of the source and
\* no larger than the source.
C2_WholeImageDims ==
    (RDSReturned /\ rds.patch_size = NONE) =>
        LET H == before["gt"].h
            W == before["gt"].w
            n == results["scale"].v
            h_lr == FloorEps(H * ScaleDen, n)
            w_lr == FloorEps(W * ScaleDen, n)
        IN  /\ Shape(results["lq"]) = <<h_lr, w_lr>>
            /\ Shape(results["gt"]) = <<PyRound(h_lr * n, ScaleDen), PyRound(w_lr * n, ScaleDen)>>
            /\ results["gt"].by = "trim" /\ last.x0 = 0 /\ last.y0 = 0
            /\ results["gt"].h <= H /\ results["gt"].w <= W

\* a returned whole-image call on a non-square source that was trimmed on one
\* axis and gave a non-square 'lq'
C2_Witness ==
    /\ RDSReturned /\ rds.patch_size = NONE
    /\ results["lq"].h # results["lq"].w /\ results["lq"].h >= 1 /\ results["lq"].w >= 1
    /\ results["gt"].h < before["gt"].h

\* C3: SRResize, whenever the call returns: the image under output_key is
\* floor(H*s + 1e-9) x floor(W*s + 1e-9); an exact integer product is kept,
\* s = 1 keeps the dimensions, 100 gives 50 at s = 0.5 and 200 at s = 2.0.
C3_SRResizeDims ==
    /\ SRReturned =>
          LET H == before[sr.input_key].h
              W == before[sr.input_key].w
              out == results[sr.output_key]
          IN  /\ Shape(out) = <<FloorEps(H * sr.scale, ScaleDen), FloorEps(W * sr.scale, ScaleDen)>>
              /\ ((H * sr.scale) % ScaleDen = 0 => out.h * ScaleDen = H * sr.scale)
              /\ ((W * sr.scale) % ScaleDen = 0 => out.w * ScaleDen = W * sr.scale)
              /\ (sr.scale = ScaleDen => Shape(out) = <<H, W>>)
    /\ FloorEps(100 * 1, 2) = 50
    /\ FloorEps(100 * 2, 1) = 200

\* a returned SRResize call on a non-square image whose product with the scale
\* is not an integer on one axis
C3_Witness ==
    /\ SRReturned
    /\ before[sr.input_key].h # before[sr.input_key].w
    /\ (before[sr.input_key].h * sr.scale) % ScaleDen # 0
    /\ results[sr.output_key].h # results[sr.output_key].w
    /\ results[sr.output_key].h >= 1

\* C4: RandomDownSampling with a patch size: when the drawn scale leaves an
\* empty or negative origin range on an axis, the call fails and the mapping
\* is exactly as before the call.
C4_EmptyRangeFails ==
    ( /\ last.op = "RandomDownSampling.__call__"
      /\ rds.patch_size # NONE
      /\ HasKey(before, "gt")
      /\ \/ before["gt"].h - PyRound(rds.patch_size * last.scale, ScaleDen) <= 0
         \/ before["gt"].w - PyRound(rds.patch_size * last.scale, ScaleDen) <= 0 )
    => /\ last.err = "ValueError"
       /\ last.ret = "none"
       /\ results = before
       /\ ~HasKey(results, "lq")

\* a failed patch call where the crop would fit the height exactly and fit the
\* width with room, on a sample that carried a stale 'scale'
C4_Witness ==
    /\ last.op = "RandomDownSampling.__call__" /\ last.err = "ValueError"
    /\ rds.patch_size # NONE
    /\ before["gt"].h = last.w_hr
    /\ before["gt"].w > last.w_hr
    /\ HasKey(results, "scale")

\* C5 as stated: the call raises whenever some scale of the configured range
\* needs a crop larger than the source, whichever scale was drawn (read on
\* the calls whose own crop is not empty).
C5_Original ==
    ( /\ last.op = "RandomDownSampling.__call__"
      /\ rds.patch_size # NONE
      /\ HasKey(before, "gt")
      /\ PyRound(rds.patch_size * last.scale, ScaleDen) >= 1
      /\ \E n \in Uniform(rds.scale_min, rds.scale_max) :
            \/ PyRound(rds.patch_size * n, ScaleDen) > before["gt"].h
            \/ PyRound(rds.patch_size * n, ScaleDen) > before["gt"].w )
    => last.err # "none"

\* C5 (amended): the origin draw raises exactly when the scale drawn on that
\* call gives round(p * scale) >= H or >= W; a call with
\* 1 <= round(p * scale) < min(H, W) returns, also when other scales of the
\* range would not fit (an empty crop, round(p * scale) = 0, is left to the
\* resize library).
C5_RaisesOnDrawnScale ==
    ( /\ last.op = "RandomDownSampling.__call__"
      /\ rds.patch_size # NONE
      /\ HasKey(before, "gt") )
    => LET w == PyRound(rds.patch_size * last.scale, ScaleDen)
       IN  /\ last.err \in {"none", "ValueError", "ResizeError"}
           /\ last.err = "ValueError" <=> (w >= before["gt"].h \/ w >= before["gt"].w)
           /\ last.err = "ResizeError" => w = 0
           /\ last.err = "none" <=> last.ret = "results"

\* a returned patch call under a range holding a scale whose crop is larger
\* than the source
C5_Witness ==
    /\ RDSReturned /\ rds.patch_size # NONE
    /\ last.w_hr >= 1
    /\ \E n \in Uniform(rds.scale_min, rds.scale_max) :
          PyRound(rds.patch_size * n, ScaleDen) > before["gt"].h

\* C6 as stated: construction fails when scale_max < scale_min, and every
\* returned call of an accepted configuration (scale_max = scale_min
\* included) wrote a scale with scale_min <= scale < scale_max (read on the
\* calls that produced no empty image).
C6_Original ==
    /\ (last.op = "RandomDownSampling.__init__" /\ last.arg2 < last.arg1)
          => last.err = "AssertionError"
    /\ (RDSReturned /\ ~Degenerate(results["gt"], Shape(results["lq"])))
          => /\ rds.scale_min <= results["scale"].v
             /\ results["scale"].v < rds.scale_max

\* C7: a returned call returns the mapping it was given; SRResize changed no
\* key but output_key, RandomDownSampling bound 'gt', 'lq' and 'scale' and
\* changed no other key.
C7_Frame ==
    /\ SRReturned =>
          /\ last.ret = "results"
          /\ results[sr.output_key] = last.out
          /\ \A k \in Keys \ {sr.output_key} : results[k] = before[k]
          /\ (sr.input_key # sr.output_key => results[sr.input_key] = before[sr.input_key])
    /\ RDSReturned =>
          /\ last.ret = "results"
          /\ IsImage(results["gt"]) /\ IsImage(results["lq"])
          /\ results["lq"] = last.out
          /\ results["scale"] = Float(last.scale)
          /\ \A k \in Keys \ {"gt", "lq", "scale"} : results[k] = before[k]

\* SRResize has written 'aux' from the 'lq' that RandomDownSampling made of a
\* sample with a stale 'scale'
C7_Witness ==
    /\ SRReturned
    /\ sr.input_key = "lq" /\ sr.output_key = "aux"
    /\ results["aux"] # before["aux"]
    /\ results["gt"].by \in {"trim", "crop"}
    /\ results["scale"].kind = "float" /\ results["scale"].v >= 1

\* C8: a call on a mapping without the required key fails with the missing-key
\* error and leaves the mapping unchanged.
C8_MissingKey ==
    /\ (last.op = "SRResize.__call__" /\ ~IsImage(before[sr.input_key]))
          => /\ last.err = "AssertionError"
             /\ last.ret = "none"
             /\ results = before
    /\ (last.op = "RandomDownSampling.__call__" /\ ~IsImage(before["gt"]))
          => /\ last.err = "KeyError"
             /\ last.ret = "none"
             /\ last.scale = 0
             /\ results = before

\* SRResize was called for 'lq' on a sample that has a 'gt' but no 'lq'
C8_Witness ==
    /\ last.op = "SRResize.__call__"
    /\ sr.input_key = "lq" /\ sr.output_key = "lq"
    /\ IsImage(before["gt"]) /\ before["lq"] = Absent
    /\ last.err = "AssertionError"

\* C9: resize_fn passes (n, n) for the single integer n and the pair (w, h)
\* as given, returns the container kind it was given, and raises TypeError
\* for anything that is neither an array nor a tensor.
C9_ResizeFn ==
    last.op = "resize_fn" =>
        /\ last.img.kind \in {"ndarray", "tensor"} =>
              /\ last.err = "none"
              /\ last.out.kind = last.img.kind
              /\ Len(last.size) = 1 => last.passed = <<last.size[1], last.size[1]>>
              /\ Len(last.size) = 2 => last.passed = last.size
              /\ Shape(last.out) = <<last.passed[2], last.passed[1]>>
        /\ last.img.kind \notin {"ndarray", "tensor"} =>
              /\ last.err = "TypeError"
              /\ last.out = Absent

\* resize_fn has resized a tensor to a single integer size
C9_Witness ==
    /\ last.op = "resize_fn"
    /\ last.img.kind = "tensor" /\ last.out.kind = "tensor"
    /\ Len(last.size) = 1 /\ last.size[1] # last.img.h

\* SRResize with the drawn scale has been applied to the non-empty 'lq' of a
\* whole-image RandomDownSampling call, not overwriting 'gt'
RoundTrip ==
    /\ SRReturned
    /\ before["lq"].h >= 1 /\ before["lq"].w >= 1
    /\ sr.input_key = "lq" /\ sr.output_key # "gt"
    /\ before["gt"].by = "trim" /\ before["lq"].by = "resize"
    /\ before["scale"].v = sr.scale

\* C10 as stated: after the round trip the upsampled image has the
\* dimensions of 'gt'.
C10_Original ==
    RoundTrip => Shape(results[sr.output_key]) = Shape(results["gt"])

\* whether round(a/b) lies above floor(a/b)
RoundsUp(a, b) ==
    \/ 2 * (a % b) > b
    \/ 2 * (a % b) = b /\ (a \div b) % 2 = 1

\* whether the fraction of a/b is below 1 - 1e-9
BelowOneLessEps(a, b) == (b \div (b - (a % b))) < EpsDen

\* C10 (amended): after the round trip the 'gt' extent exceeds the upsampled
\* extent by 0 or 1 on each axis: by 0 when the fraction of h_lr*s is below
\* 1/2 (integer products included), by 1 when round(h_lr*s) rounds up and
\* the fraction is below 1 - 1e-9.
C10_RoundTripWithinOne ==
    RoundTrip =>
        LET up == results[sr.output_key]
            gt == results["gt"]
            a == before["lq"].h * sr.scale
            c == before["lq"].w * sr.scale
        IN  /\ gt.h - up.h \in {0, 1}
            /\ gt.w - up.w \in {0, 1}
            /\ 2 * (a % ScaleDen) < ScaleDen => gt.h = up.h
            /\ 2 * (c % ScaleDen) < ScaleDen => gt.w = up.w
            /\ (RoundsUp(a, ScaleDen) /\ BelowOneLessEps(a, ScaleDen)) => gt.h = up.h + 1
            /\ (RoundsUp(c, ScaleDen) /\ BelowOneLessEps(c, ScaleDen)) => gt.w = up.w + 1

\* a round trip that is exact on the width and one short on the height
C10_Witness ==
    /\ RoundTrip
    /\ results[sr.output_key].w = results["gt"].w
    /\ results[sr.output_key].h + 1 = results["gt"].h
    /\ results[sr.output_key].h >= 1

====
